---- MODULE Spec2Model ----
(***************************************************************************)
(* Model of the `container` prompt module (src/modules/container.rs).      *)
(* target_os is the operating system the crate was compiled for: it        *)
(* selects one of the two definitions of module().                         *)
(*                                                                         *)
(* A Rust String is modelled as a sequence of one-character strings, so    *)
(* that starts_with, split_at, rfind, trim, trim_end_matches and lines are *)
(* computed character by character as the standard library computes them.  *)
(***************************************************************************)
EXTENDS Integers, Sequences, FiniteSets, TLC

VARIABLES target_os, context, config, pc, detected, result, warnings

vars == <<target_os, context, config, pc, detected, result, warnings>>

----------------------------------------------------------------------------
(* Bounds of the explored inputs *)

\* longest value part of the main line of /run/.containerenv
MaxBody == 3
\* most lines in front of the main line of /run/.containerenv
MaxLead == 2
\* most whitespace characters on either side of /run/systemd/container
MaxPad == 2

----------------------------------------------------------------------------
(* Option / Result values *)

None == [tag |-> "None"]
Some(v) == [tag |-> "Some", val |-> v]
Ok(v) == [tag |-> "Ok", val |-> v]
Err == [tag |-> "Err"]

(* String literals of the source *)

S_OpenVZ == <<"O", "p", "e", "n", "V", "Z">>
S_OCI == <<"O", "C", "I">>
S_Systemd == <<"S", "y", "s", "t", "e", "m", "d">>
S_Docker == <<"D", "o", "c", "k", "e", "r">>
S_podman == <<"p", "o", "d", "m", "a", "n">>
S_wsl == <<"w", "s", "l">>
S_image_eq_quote == <<"i", "m", "a", "g", "e", "=", "\"">>
\* the literal 7 of l.split_at(7)
ImageSplit == 7

----------------------------------------------------------------------------
(* Standard-library string functions, as container_name uses them *)

\* str::starts_with
starts_with(l, p) == Len(l) >= Len(p) /\ SubSeq(l, 1, Len(p)) = p

\* str::split_at(n).1 : the text from byte offset n on
split_at_1(l, n) == SubSeq(l, n + 1, Len(l))

\* str::rfind(c) : zero-based offset of the last occurrence, or None
rfind(r, c) ==
    LET hits == {i \in 1..Len(r) : r[i] = c}
    IN  IF hits = {} THEN None
        ELSE Some((CHOOSE i \in hits : \A j \in hits : j <= i) - 1)

\* str::trim_end_matches(c) : c removed from the end repeatedly
RECURSIVE trim_end_matches(_, _)
trim_end_matches(s, c) ==
    IF Len(s) > 0 /\ s[Len(s)] = c
    THEN trim_end_matches(SubSeq(s, 1, Len(s) - 1), c)
    ELSE s

\* char::is_whitespace, on the characters the model's files hold
is_whitespace(ch) == ch \in {" ", "\n", "\r", "\t"}

RECURSIVE trim_start(_)
trim_start(s) ==
    IF Len(s) > 0 /\ is_whitespace(s[1]) THEN trim_start(Tail(s)) ELSE s

RECURSIVE trim_end(_)
trim_end(s) ==
    IF Len(s) > 0 /\ is_whitespace(s[Len(s)])
    THEN trim_end(SubSeq(s, 1, Len(s) - 1))
    ELSE s

\* str::trim
trim(s) == trim_end(trim_start(s))

\* str::lines : split after every "\n"; each line loses its "\n" and a "\r"
\* right before it; a last line without "\n" is kept as it is
RECURSIVE lines(_)
lines(s) ==
    IF s = <<>> THEN <<>>
    ELSE LET nls == {i \in 1..Len(s) : s[i] = "\n"}
         IN  IF nls = {} THEN <<s>>
             ELSE LET n == CHOOSE i \in nls : \A j \in nls : i <= j
                      raw == SubSeq(s, 1, n - 1)
                      l == IF Len(raw) > 0 /\ raw[Len(raw)] = "\r"
                           THEN SubSeq(raw, 1, Len(raw) - 1)
                           ELSE raw
                  IN  <<l>> \o lines(SubSeq(s, n + 1, Len(s)))

----------------------------------------------------------------------------
(* The filesystem under the context's root *)

Absent == [kind |-> "absent", data |-> <<>>]
Unreadable == [kind |-> "unreadable", data |-> <<>>]
File(d) == [kind |-> "file", data |-> d]

\* context_path(context, p).exists()
exists(f) == f.kind # "absent"

\* utils::read_file(context_path(context, p))
read_file(f) == IF f.kind = "file" THEN Ok(f.data) ELSE Err

----------------------------------------------------------------------------
(* container_name *)

\* check 1 with "||" in place of "&&"
openvz_check_or(ctx) == ctx.vz \/ ~ctx.bc

\* check 1 without the /proc/bc condition
openvz_check_no_bc(ctx) == ctx.vz

\* check 1: /proc/vz exists and /proc/bc does not
openvz_check(ctx) == ctx.vz /\ ~ctx.bc

\* check 2: /run/host/container-manager exists
oci_check(ctx) == ctx.oci

\* check 3 deciding on exists() and letting a failed read count as a match
systemd_check_exists(ctx) ==
    LET r == read_file(ctx.systemd)
    IN  exists(ctx.systemd) /\ (r.tag = "Ok" => trim(r.val) # S_wsl)

\* check 3 that also rejects a blank file
systemd_check_nonblank(ctx) ==
    LET r == read_file(ctx.systemd)
    IN  r.tag = "Ok" /\ trim(r.val) # S_wsl /\ trim(r.val) # <<>>

\* check 3: read_file(..).ok().filter(|s| s.trim() != "wsl").is_some()
systemd_check(ctx) ==
    LET r == read_file(ctx.systemd)
    IN  r.tag = "Ok" /\ trim(r.val) # S_wsl

\* the image name searched from the first '/' instead of the last
image_name_find(l) ==
    LET r == split_at_1(l, ImageSplit)
        hits == {i \in 1..Len(r) : r[i] = "/"}
        name == IF hits = {} THEN r
                ELSE split_at_1(r, CHOOSE i \in hits : \A j \in hits : i <= j)
    IN  trim_end_matches(name, "\"")

\* the image name with one trailing quote removed (strip_suffix)
image_name_strip_one(l) ==
    LET r == split_at_1(l, ImageSplit)
        n == rfind(r, "/")
        name == IF n.tag = "Some" THEN split_at_1(r, n.val + 1) ELSE r
    IN  IF Len(name) > 0 /\ name[Len(name)] = "\""
        THEN SubSeq(name, 1, Len(name) - 1)
        ELSE name

\* the closure of find_map: the name taken from a line starting with image="
image_name(l) ==
    LET r == split_at_1(l, ImageSplit)
        n == rfind(r, "/")
        name == IF n.tag = "Some" THEN split_at_1(r, n.val + 1) ELSE r
    IN  trim_end_matches(name, "\"")

\* s.lines().find_map(|l| l.starts_with("image=\"").then(|| ...))
RECURSIVE find_map_image(_)
find_map_image(ls) ==
    IF ls = <<>> THEN None
    ELSE IF starts_with(Head(ls), S_image_eq_quote)
         THEN Some(image_name(Head(ls)))
         ELSE find_map_image(Tail(ls))

\* image_res with unwrap_or_default() in place of the "podman" defaults
image_res_default(f) ==
    LET rd == read_file(f)
    IN  IF rd.tag = "Ok"
        THEN LET found == find_map_image(lines(rd.val))
             IN  IF found.tag = "Some" THEN found.val ELSE <<>>
        ELSE <<>>

\* image_res: the name of check 4 once /run/.containerenv exists
image_res(f) ==
    LET rd == read_file(f)
    IN  IF rd.tag = "Ok"
        THEN LET found == find_map_image(lines(rd.val))
             IN  IF found.tag = "Some" THEN found.val ELSE S_podman
        ELSE S_podman

container_name(ctx) ==
    IF openvz_check(ctx) THEN Some(S_OpenVZ)
    ELSE IF oci_check(ctx) THEN Some(S_OCI)
    ELSE IF systemd_check(ctx) THEN Some(S_Systemd)
    ELSE IF exists(ctx.containerenv) THEN Some(image_res(ctx.containerenv))
    ELSE IF ctx.dockerenv THEN Some(S_Docker)
    ELSE None

----------------------------------------------------------------------------
(* The format template and StringFormatter *)

\* A template is a sequence of tokens: a variable, literal text, or "BAD",
\* a piece of syntax the template grammar rejects.
DefaultFormat == <<"$symbol", "text", "$name">>
NoNameFormat == <<"text">>
MalformedFormat == <<"$name", "BAD">>
Formats == {DefaultFormat, NoNameFormat, MalformedFormat}

Symbol == "symbol"
Style == "style"

\* StringFormatter::new(format) ... .parse(None, Some(context)): the segments
\* of the template with $symbol and $name substituted, or the parse error
StringFormatter_parse(format, symbol, style, name) ==
    IF \E i \in 1..Len(format) : format[i] = "BAD" THEN Err
    ELSE Ok([i \in 1..Len(format) |->
               [style |-> style,
                value |-> CASE format[i] = "$symbol" -> <<symbol>>
                            [] format[i] = "$name" -> name
                            [] OTHER -> <<format[i]>>]])

----------------------------------------------------------------------------
(* module() *)

NotCalled == [tag |-> "NotCalled"]

\* module() without the early return on config.disabled
module_ignore_disabled(ctx, cfg) ==
    LET cn == container_name(ctx)
    IN  IF cn.tag = "None"
        THEN [ret |-> None, detected |-> cn, warns |-> 0]
        ELSE LET parsed == StringFormatter_parse(cfg.format, cfg.symbol,
                                                 cfg.style, cn.val)
             IN  IF parsed.tag = "Ok"
                 THEN [ret |-> Some([name |-> "container",
                                     segments |-> parsed.val]),
                       detected |-> cn, warns |-> 0]
                 ELSE [ret |-> None, detected |-> cn, warns |-> 1]

\* module() swallowing the formatter error: no warning, an empty module
module_silent_error(ctx, cfg) ==
    IF cfg.disabled
    THEN [ret |-> None, detected |-> NotCalled, warns |-> 0]
    ELSE LET cn == container_name(ctx)
         IN  IF cn.tag = "None"
             THEN [ret |-> None, detected |-> cn, warns |-> 0]
             ELSE LET parsed == StringFormatter_parse(cfg.format, cfg.symbol,
                                                      cfg.style, cn.val)
                  IN  [ret |-> Some([name |-> "container",
                                     segments |-> IF parsed.tag = "Ok"
                                                  THEN parsed.val ELSE <<>>]),
                       detected |-> cn, warns |-> 0]

\* module() under #[cfg(not(target_os = "linux"))]
module_not_linux(ctx) == [ret |-> None, detected |-> NotCalled, warns |-> 0]

\* module() under #[cfg(target_os = "linux")]: what it returns, what
\* container_name returned to it (NotCalled when it was not reached) and how
\* many times log::warn! ran
module(ctx, cfg) ==
    IF cfg.disabled
    THEN [ret |-> None, detected |-> NotCalled, warns |-> 0]
    ELSE LET cn == container_name(ctx)
         IN  IF cn.tag = "None"
             THEN [ret |-> None, detected |-> cn, warns |-> 0]
             ELSE LET parsed == StringFormatter_parse(cfg.format, cfg.symbol,
                                                      cfg.style, cn.val)
                  IN  IF parsed.tag = "Ok"
                      THEN [ret |-> Some([name |-> "container",
                                          segments |-> parsed.val]),
                            detected |-> cn, warns |-> 0]
                      ELSE [ret |-> None, detected |-> cn, warns |-> 1]

----------------------------------------------------------------------------
(* The inputs explored *)

SeqsUpTo(S, n) == UNION {[1..k -> S] : k \in 0..n}

RECURSIVE Concat(_)
Concat(ss) == IF ss = <<>> THEN <<>> ELSE Head(ss) \o Concat(Tail(ss))

S_nspawn == <<"s", "y", "s", "t", "e", "m", "d", "-", "n", "s", "p", "a", "w", "n">>
S_fedora == <<"f", "e", "d", "o", "r", "a", "-", "t", "o", "o", "l", "b", "o", "x", ":", "3", "5">>
S_image_eq == <<"i", "m", "a", "g", "e", "=">>

\* /run/systemd/container: a word with whitespace around it
PadChars == {" ", "\n"}
SystemdWords == {S_wsl, <<"w", "s", " ", "l">>, S_nspawn, <<>>}
SystemdContents ==
    {a \o w \o b : a \in SeqsUpTo(PadChars, MaxPad),
                   b \in SeqsUpTo(PadChars, MaxPad), w \in SystemdWords}
SystemdFiles == {Absent, Unreadable} \cup {File(d) : d \in SystemdContents}

\* the files the repository's tests write to /run/.containerenv
FedoraEnv == S_image_eq_quote \o S_fedora \o <<"\"", "\n">>
TestEnvFiles == {Absent, Unreadable, File(<<>>), File(FedoraEnv)}

\* /run/.containerenv: some lines, then a main line made of a prefix and a
\* value part, then the end of the file
LeadLines == {<<"x", "\n">>, S_image_eq_quote \o <<"b", "\"", "\n">>}
MainPrefixes == {S_image_eq_quote, S_image_eq, <<>>}
BodyChars == {"a", "/", "\""}
Endings == {<<>>, <<"\n">>, <<"\r", "\n">>}
EnvContents ==
    {Concat(ld) \o p \o b \o e : ld \in SeqsUpTo(LeadLines, MaxLead),
                                p \in MainPrefixes,
                                b \in SeqsUpTo(BodyChars, MaxBody),
                                e \in Endings}
EnvFiles == TestEnvFiles \cup {File(d) : d \in EnvContents}

Configs == [disabled : BOOLEAN, format : Formats, symbol : {Symbol},
            style : {Style}]

----------------------------------------------------------------------------
(* The state machine: one prompt render calls module() once *)

InitCall ==
    /\ target_os \in {"linux", "other"}
    /\ pc = "ready"
    /\ detected = NotCalled
    /\ result = None
    /\ warnings = 0

\* every combination of the six markers, the tests' /run/.containerenv files
Init ==
    /\ context \in [vz : BOOLEAN, bc : BOOLEAN, oci : BOOLEAN,
                    systemd : SystemdFiles, containerenv : TestEnvFiles,
                    dockerenv : BOOLEAN]
    /\ config \in Configs
    /\ InitCall

\* every /run/.containerenv content, checks 1 and 2 not matching
InitParse ==
    /\ context \in [vz : {FALSE}, bc : {FALSE}, oci : {FALSE},
                    systemd : {Absent, File(S_wsl \o <<"\n">>)},
                    containerenv : EnvFiles, dockerenv : BOOLEAN]
    /\ config \in Configs
    /\ InitCall

module_call ==
    /\ pc = "ready"
    /\ LET r == IF target_os = "linux" THEN module(context, config)
                ELSE module_not_linux(context)
       IN  /\ result' = r.ret
           /\ detected' = r.detected
           /\ warnings' = warnings + r.warns
    /\ pc' = "returned"
    /\ UNCHANGED <<target_os, context, config>>

Next == module_call

Spec == Init /\ [][Next]_vars

SpecParse == InitParse /\ [][Next]_vars

Done == pc = "returned"

----------------------------------------------------------------------------
(* The conditions of the five checks, read off the marker files *)

\* d is the word wsl with nothing but whitespace around it
IsWslTrimmed(d) ==
    \E i \in 1..(Len(d) - 2) :
        /\ d[i] = "w" /\ d[i + 1] = "s" /\ d[i + 2] = "l"
        /\ \A j \in (1..Len(d)) \ {i, i + 1, i + 2} : d[j] \in {" ", "\n", "\r", "\t"}

Cond1 == context.vz /\ ~context.bc
Cond2 == context.oci
Cond3 == context.systemd.kind = "file" /\ ~IsWslTrimmed(context.systemd.data)
Cond4 == context.containerenv.kind # "absent"
Cond5 == context.dockerenv

\* l starts with image="
IsImageLine(l) ==
    Len(l) >= 7 /\ \A i \in 1..7 : l[i] = S_image_eq_quote[i]

\* the lines of /run/.containerenv
EnvLines == lines(context.containerenv.data)

HasImageLine == \E k \in 1..Len(EnvLines) : IsImageLine(EnvLines[k])

\* the first line starting with image="
FirstImageLine ==
    EnvLines[CHOOSE k \in 1..Len(EnvLines) :
                 /\ IsImageLine(EnvLines[k])
                 /\ \A j \in 1..(k - 1) : ~IsImageLine(EnvLines[j])]

\* the text of l after its first 7 characters
After7(l) == [i \in 1..(Len(l) - 7) |-> l[i + 7]]

\* the portion of r after its last '/', all of r when it has none
AfterLastSlash(r) ==
    LET n == CHOOSE n \in 0..Len(r) :
                 /\ \A j \in (Len(r) - n + 1)..Len(r) : r[j] # "/"
                 /\ (n = Len(r) \/ r[Len(r) - n] = "/")
    IN  [i \in 1..n |-> r[Len(r) - n + i]]

\* t with one trailing '"' removed when it has one
StripOneQuote(t) ==
    IF Len(t) > 0 /\ t[Len(t)] = "\"" THEN [i \in 1..(Len(t) - 1) |-> t[i]] ELSE t

\* t with every trailing '"' removed
StripAllQuotes(t) ==
    LET m == CHOOSE m \in 0..Len(t) :
                 /\ (m = 0 \/ t[m] # "\"")
                 /\ \A j \in (m + 1)..Len(t) : t[j] = "\""
    IN  [i \in 1..m |-> t[i]]

\* the name check 4 gives: taken from the first image line, else podman
EnvName ==
    IF context.containerenv.kind = "file" /\ HasImageLine
    THEN StripAllQuotes(AfterLastSlash(After7(FirstImageLine)))
    ELSE S_podman

\* checks 1-3 do not match, /run/.containerenv is read and has an image line
ImageCase ==
    /\ Done /\ detected # NotCalled
    /\ ~Cond1 /\ ~Cond2 /\ ~Cond3
    /\ context.containerenv.kind = "file"
    /\ HasImageLine

\* checks 1-3 do not match, /run/.containerenv is read and has no image line
NoImageCase ==
    /\ Done
    /\ ~Cond1 /\ ~Cond2 /\ ~Cond3
    /\ context.containerenv.kind = "file"
    /\ ~HasImageLine

\* what the formatter makes of the name n under the current config
Rendered(n) ==
    StringFormatter_parse(config.format, config.symbol, config.style, n)

----------------------------------------------------------------------------
(* Claims *)

\* C1: with disabled = true module() returns no output, whatever the marker
\* files hold and whatever the format template is.
C1_DisabledNoOutput == Done /\ config.disabled => result = None

C1_Witness ==
    /\ Done /\ target_os = "linux" /\ config.disabled /\ result = None
    /\ context.dockerenv /\ context.containerenv.kind = "unreadable"
    /\ config.format = MalformedFormat

C3_WslNoContainer ==
    Done /\ context.systemd.kind = "file" /\ IsWslTrimmed(context.systemd.data) =>
        detected.tag # "Some" /\ result = None

C5_NameStripsOneQuote ==
    ImageCase =>
        detected = Some(StripOneQuote(AfterLastSlash(After7(FirstImageLine))))

\* C5 amended: the name is the first image line after its first 7
\* characters, then after its last '/', then with every trailing '"' removed;
\* image="fedora-toolbox:35" gives fedora-toolbox:35.
C5_NameStripsAllQuotes ==
    ImageCase =>
        /\ detected = Some(StripAllQuotes(AfterLastSlash(After7(FirstImageLine))))
        /\ context.containerenv.data = FedoraEnv => detected = Some(S_fedora)

C5_Witness ==
    /\ ImageCase
    /\ \E i \in 1..Len(FirstImageLine) : FirstImageLine[i] = "/"
    /\ Len(EnvLines) > 1 /\ IsImageLine(EnvLines[2])
    /\ detected = Some(<<"a">>)

\* C6 as stated: with no image line the name is podman and the module
\* renders output with that name.
C6_PodmanAlwaysRendered ==
    NoImageCase =>
        /\ detected # NotCalled => detected = Some(S_podman)
        /\ result.tag = "Some"
        /\ result.val.segments = Rendered(S_podman).val

\* C6 amended: with no image line the name is podman, and on a Linux build,
\* when the module is enabled and the format template is valid, the module
\* renders output with that name.
C6_PodmanRenderedWhenEnabled ==
    NoImageCase =>
        /\ detected # NotCalled => detected = Some(S_podman)
        /\ target_os = "linux" /\ ~config.disabled
                                /\ Rendered(S_podman).tag = "Ok" =>
               /\ result.tag = "Some"
               /\ result.val.segments = Rendered(S_podman).val

C6_Witness ==
    /\ NoImageCase
    /\ context.containerenv.data = <<>>
    /\ context.dockerenv
    /\ config.format = DefaultFormat
    /\ result.tag = "Some"
    /\ result.val.segments[3].value = S_podman

\* C7: when checks 1-2 do not match and /run/systemd/container is readable
\* with trimmed contents other than wsl, the name is Systemd, whether or not
\* /run/.containerenv or /.dockerenv exist.
C7_Systemd ==
    Done /\ detected # NotCalled /\ ~Cond1 /\ ~Cond2
         /\ context.systemd.kind = "file"
         /\ ~IsWslTrimmed(context.systemd.data) =>
        detected = Some(S_Systemd)

C7_Witness ==
    /\ Done /\ detected = Some(S_Systemd)
    /\ context.systemd = File(S_nspawn \o <<"\n">>)
    /\ context.containerenv.kind = "file" /\ context.dockerenv

\* C8: when none of /proc/vz, /run/host/container-manager,
\* /run/systemd/container, /run/.containerenv, /.dockerenv exists,
\* container_name returns none and module() produces no output, for every
\* config and format template.
C8_NoMarkersNoOutput ==
    Done /\ ~context.vz /\ ~context.oci /\ context.systemd = Absent
         /\ context.containerenv = Absent /\ ~context.dockerenv =>
        detected.tag # "Some" /\ result = None

C8_Witness ==
    /\ Done /\ ~context.vz /\ ~context.oci /\ context.systemd = Absent
    /\ context.containerenv = Absent /\ ~context.dockerenv
    /\ ~config.disabled /\ detected = None /\ result = None

\* C9: enabled with a container detected, a formatter error gives no output
\* and exactly one warning; no other path logs a warning; and when the
\* formatter succeeds the module's segments are the formatter's result.
C9_FormatterErrorOnlyWarning ==
    /\ ~Done => warnings = 0
    /\ Done /\ ~config.disabled /\ detected.tag = "Some"
            /\ Rendered(detected.val).tag = "Err" =>
           result = None /\ warnings = 1
    /\ Done /\ warnings # 0 =>
           /\ ~config.disabled /\ detected.tag = "Some"
           /\ Rendered(detected.val).tag = "Err"
    /\ Done /\ ~config.disabled /\ detected.tag = "Some"
            /\ Rendered(detected.val).tag = "Ok" =>
           result = Some([name |-> "container",
                          segments |-> Rendered(detected.val).val])

C9_Witness ==
    /\ Done /\ warnings = 1 /\ result = None
    /\ detected = Some(S_Docker) /\ config.format = MalformedFormat

\* C10: a name taken from an image line holds no '/' and does not end with
\* '"'; every name container_name returns is OpenVZ, OCI, Systemd, Docker,
\* podman or such a string.
C10_NameShape ==
    /\ ImageCase =>
           /\ detected.tag = "Some"
           /\ \A i \in 1..Len(detected.val) : detected.val[i] # "/"
           /\ detected.val = <<>> \/ detected.val[Len(detected.val)] # "\""
    /\ Done /\ detected.tag = "Some" =>
           \/ detected.val \in {S_OpenVZ, S_OCI, S_Systemd, S_Docker, S_podman}
           \/ /\ \A i \in 1..Len(detected.val) : detected.val[i] # "/"
              /\ detected.val = <<>> \/ detected.val[Len(detected.val)] # "\""

C10_Witness ==
    /\ ImageCase
    /\ FirstImageLine = S_image_eq_quote \o <<"\"", "\"">>
    /\ detected = Some(<<>>)

====
